---------------------------- MODULE Spec2Model ----------------------------
(***************************************************************************)
(* Model of stdlib/operating-system/solution/argparse_avg.py: a script     *)
(* that parses `--numbers f1 ... fn` with argparse, computes the mean with *)
(* avg of its arguments, sum(args) / len(args), and prints it.             *)
(*                                                                         *)
(* Python floats are IEEE-754 binary64 values.  They are modelled exactly: *)
(* a finite double is a sign, a 53-bit significand and a binary exponent,  *)
(* the significand held as an arbitrary-precision natural (15-bit limbs,   *)
(* least significant first).  Addition, division, float(str) and           *)
(* repr(float) round as the interpreter does (round-half-to-even, shortest *)
(* round-tripping decimal), over the whole range of doubles: subnormals,   *)
(* overflow to the infinities, nan.                                        *)
(*                                                                         *)
(* Intermediate values are passed on as operator arguments, or bound as    *)
(* the member of a one-element set, so that each is evaluated once.        *)
(***************************************************************************)
EXTENDS Integers, Sequences, FiniteSets, TLC

(***************************************************************************)
(* Arbitrary-precision naturals: sequences of limbs, least significant     *)
(* first, without high zero limbs; <<>> is zero.  An operation evaluates   *)
(* its operands once (they are bound as members of a one-element set) and  *)
(* works on the limbs by halving the range, so that long numbers do not    *)
(* nest the evaluation deeply.                                             *)
(***************************************************************************)
Base == 2^15

RECURSIVE IntBitLen(_)
IntBitLen(n) == IF n = 0 THEN 0 ELSE 1 + IntBitLen(n \div 2)

LimbBits == IntBitLen(Base) - 1

Limb(a, i) == IF i <= Len(a) THEN a[i] ELSE 0

Trim(a) ==
    IF \A i \in 1..Len(a) : a[i] = 0 THEN <<>>
    ELSE SubSeq(a, 1, CHOOSE i \in 1..Len(a) :
                          a[i] # 0 /\ \A j \in (i + 1)..Len(a) : a[j] = 0)

RECURSIVE BigOfInt(_)
BigOfInt(n) ==
    IF n = 0 THEN <<>> ELSE <<n % Base>> \o BigOfInt(n \div Base)

CmpAt(a, b, i) == IF a[i] > b[i] THEN 1 ELSE -1

CmpValues(a, b) ==
    IF Len(a) > Len(b) THEN 1
    ELSE IF Len(a) < Len(b) THEN -1
    ELSE IF a = b THEN 0
    ELSE CmpAt(a, b, CHOOSE i \in 1..Len(a) :
                         a[i] # b[i] /\ \A j \in (i + 1)..Len(a) : a[j] = b[j])

\* -1, 0, 1 as a < b, a = b, a > b
BigCmp(a, b) == CHOOSE r \in {CmpValues(x, y) : x \in {a}, y \in {b}} : TRUE

\* Limbs out of two neighbouring ranges, the carry (borrow, remainder) c of
\* the range worked on last
Joined(low, up, c) == [out |-> low.out \o up.out, c |-> c]

Carried(st) == IF st.c = 0 THEN st.out ELSE st.out \o <<st.c>>

AddLimb(a, b, i, c) ==
    [out |-> <<(Limb(a, i) + Limb(b, i) + c) % Base>>,
     c   |-> (Limb(a, i) + Limb(b, i) + c) \div Base]

RECURSIVE AddRange(_, _, _, _, _)

AddUpper(a, b, mid, hi, low) ==
    CHOOSE r \in {Joined(low, up, up.c) :
                    up \in {AddRange(a, b, mid + 1, hi, low.c)}} : TRUE

\* the limbs lo..hi of a + b, with the carry c coming in
AddRange(a, b, lo, hi, c) ==
    IF lo = hi THEN AddLimb(a, b, lo, c)
    ELSE CHOOSE r \in {AddUpper(a, b, (lo + hi) \div 2, hi, low) :
                         low \in {AddRange(a, b, lo, (lo + hi) \div 2, c)}} : TRUE

AddValues(a, b) ==
    IF a = <<>> THEN b
    ELSE IF b = <<>> THEN a
    ELSE CHOOSE r \in {Carried(st) :
                         st \in {AddRange(a, b, 1,
                                          IF Len(a) > Len(b) THEN Len(a) ELSE Len(b),
                                          0)}} : TRUE

BigAdd(a, b) == CHOOSE r \in {AddValues(x, y) : x \in {a}, y \in {b}} : TRUE

SubLimb(a, b, i, borrow) ==
    IF a[i] - Limb(b, i) - borrow < 0
    THEN [out |-> <<a[i] - Limb(b, i) - borrow + Base>>, c |-> 1]
    ELSE [out |-> <<a[i] - Limb(b, i) - borrow>>, c |-> 0]

RECURSIVE SubRange(_, _, _, _, _)

SubUpper(a, b, mid, hi, low) ==
    CHOOSE r \in {Joined(low, up, up.c) :
                    up \in {SubRange(a, b, mid + 1, hi, low.c)}} : TRUE

SubRange(a, b, lo, hi, borrow) ==
    IF lo = hi THEN SubLimb(a, b, lo, borrow)
    ELSE CHOOSE r \in {SubUpper(a, b, (lo + hi) \div 2, hi, low) :
                         low \in {SubRange(a, b, lo, (lo + hi) \div 2, borrow)}} : TRUE

SubValues(a, b) ==
    IF b = <<>> THEN a
    ELSE CHOOSE r \in {Trim(st.out) : st \in {SubRange(a, b, 1, Len(a), 0)}} : TRUE

\* a - b, for a >= b
BigSub(a, b) == CHOOSE r \in {SubValues(x, y) : x \in {a}, y \in {b}} : TRUE

MulLimb(a, m, i, c) ==
    [out |-> <<(a[i] * m + c) % Base>>, c |-> (a[i] * m + c) \div Base]

RECURSIVE MulRange(_, _, _, _, _)

MulUpper(a, m, mid, hi, low) ==
    CHOOSE r \in {Joined(low, up, up.c) :
                    up \in {MulRange(a, m, mid + 1, hi, low.c)}} : TRUE

MulRange(a, m, lo, hi, c) ==
    IF lo = hi THEN MulLimb(a, m, lo, c)
    ELSE CHOOSE r \in {MulUpper(a, m, (lo + hi) \div 2, hi, low) :
                         low \in {MulRange(a, m, lo, (lo + hi) \div 2, c)}} : TRUE

MulValues(a, m) ==
    IF a = <<>> \/ m = 0 THEN <<>>
    ELSE IF m = 1 THEN a
    ELSE CHOOSE r \in {Carried(st) : st \in {MulRange(a, m, 1, Len(a), 0)}} : TRUE

\* a * m, for 0 <= m <= Base
BigMulSmall(a, m) == CHOOSE r \in {MulValues(x, y) : x \in {a}, y \in {m}} : TRUE

DivLimb(a, d, i, rem) ==
    [out |-> <<(rem * Base + a[i]) \div d>>, c |-> (rem * Base + a[i]) % d]

RECURSIVE DivRange(_, _, _, _, _)

DivLower(a, d, lo, mid, up) ==
    CHOOSE r \in {Joined(low, up, low.c) :
                    low \in {DivRange(a, d, lo, mid, up.c)}} : TRUE

\* Long division of the limbs hi down to lo of a by d, rem the remainder
\* coming in from above
DivRange(a, d, lo, hi, rem) ==
    IF lo = hi THEN DivLimb(a, d, lo, rem)
    ELSE CHOOSE r \in {DivLower(a, d, lo, (lo + hi) \div 2, up) :
                         up \in {DivRange(a, d, (lo + hi) \div 2 + 1, hi, rem)}} : TRUE

TrimQuotient(st) == [q |-> Trim(st.out), r |-> st.c]

DivValues(a, d) ==
    IF a = <<>> THEN [q |-> <<>>, r |-> 0]
    ELSE CHOOSE r \in {TrimQuotient(st) : st \in {DivRange(a, d, 1, Len(a), 0)}} : TRUE

\* quotient and remainder of a by d, for 1 <= d <= Base
BigDivSmall(a, d) == CHOOSE r \in {DivValues(x, y) : x \in {a}, y \in {d}} : TRUE

ShlLimbsValue(a, k) == IF a = <<>> THEN <<>> ELSE [i \in 1..k |-> 0] \o a

BigShlLimbs(a, k) == CHOOSE r \in {ShlLimbsValue(x, k) : x \in {a}} : TRUE

\* a * 2^bits
BigShl(a, bits) ==
    BigMulSmall(BigShlLimbs(a, bits \div LimbBits), 2^(bits % LimbBits))

ShrValue(a, bits) ==
    IF bits \div LimbBits >= Len(a) THEN <<>>
    ELSE BigDivSmall(SubSeq(a, bits \div LimbBits + 1, Len(a)),
                     2^(bits % LimbBits)).q

\* floor(a / 2^bits)
BigShr(a, bits) == CHOOSE r \in {ShrValue(x, y) : x \in {a}, y \in {bits}} : TRUE

BitLenValue(a) ==
    IF a = <<>> THEN 0
    ELSE LimbBits * (Len(a) - 1) + IntBitLen(a[Len(a)])

BitLen(a) == CHOOSE r \in {BitLenValue(x) : x \in {a}} : TRUE

\* N * 10^k
RECURSIVE MulPow10(_, _)
MulPow10(N, k) ==
    IF k <= 4 THEN BigMulSmall(N, 10^k)
    ELSE CHOOSE r \in {MulPow10(half, k - k \div 2) :
                         half \in {MulPow10(N, k \div 2)}} : TRUE

(***************************************************************************)
(* IEEE-754 binary64.  A finite double is [cls |-> "finite", neg, man,     *)
(* exp] with value sign * man * 2^exp, in one representation per value:    *)
(* man is zero (with exp = 0), or has exactly Precision bits and           *)
(* MinExp <= exp <= MaxExp (a normal number), or has fewer bits and        *)
(* exp = MinExp (a subnormal one).  The other doubles are the two          *)
(* infinities and nan.                                                     *)
(***************************************************************************)
Precision == 53

\* the exponents of the unit in the last place of the smallest and of the
\* largest finite doubles
MinExp == -1074

MaxExp == 971

Float(neg, man, exp) == [cls |-> "finite", neg |-> neg, man |-> man, exp |-> exp]

Inf(neg) == [cls |-> "inf", neg |-> neg, man |-> <<>>, exp |-> 0]

NaN == [cls |-> "nan", neg |-> FALSE, man |-> <<>>, exp |-> 0]

PosZero == Float(FALSE, <<>>, 0)

IsZero(x) == x.cls = "finite" /\ x.man = <<>>

\* sign * man * 2^exp as a double, man already cut to the bits it may have:
\* a signed zero, an infinity past the largest finite double, or finite
Ranged(neg, man, exp) ==
    IF man = <<>> THEN Float(neg, <<>>, 0)
    ELSE IF exp > MaxExp THEN Inf(neg)
    ELSE Float(neg, man, exp)

\* q * 2^e with q of at most Precision + 1 bits (Precision + 1 after a carry:
\* q is even then)
Normalize(neg, q, e) ==
    IF BitLen(q) > Precision THEN Ranged(neg, BigShr(q, 1), e + 1)
    ELSE Ranged(neg, q, e)

\* Round to nearest, ties to even: q is the value cut to its bits, c how the
\* part cut off compares with half a unit of q, sticky that more was cut.
RoundNearestEven(neg, q, e, c, sticky) ==
    IF c = 1 \/ (c = 0 /\ (sticky \/ Limb(q, 1) % 2 = 1))
    THEN CHOOSE r \in {Normalize(neg, up, e) : up \in {BigAdd(q, <<1>>)}} : TRUE
    ELSE Ranged(neg, q, e)

RoundCut(neg, N, e, sticky, sh, q) ==
    CHOOSE r \in {RoundNearestEven(neg, q, e + sh, c, sticky) :
                    c \in {BigCmp(BigSub(N, BigShl(q, sh)),
                                  BigShl(<<1>>, sh - 1))}} : TRUE

\* sh low bits of N are cut off (none for sh <= 0, N is then exact)
RoundShift(neg, N, e, sticky, sh) ==
    IF sh <= 0 THEN Ranged(neg, BigShl(N, 0 - sh), e + sh)
    ELSE CHOOSE r \in {RoundCut(neg, N, e, sticky, sh, q) :
                         q \in {BigShr(N, sh)}} : TRUE

\* N keeps Precision bits, fewer where the unit in the last place would fall
\* below 2^MinExp (gradual underflow)
RoundBits(neg, N, e, sticky, bl) ==
    RoundShift(neg, N, e, sticky,
               IF bl - Precision > MinExp - e THEN bl - Precision ELSE MinExp - e)

RoundValue(neg, N, e, sticky) ==
    IF N = <<>> THEN Float(neg, <<>>, 0)
    ELSE RoundBits(neg, N, e, sticky, BitLen(N))

\* The double nearest to sign * (N + eps) * 2^e, ties to even; sticky says
\* that 0 < eps < 1 was cut off below N (bits are cut off N as well then).
Round53(neg, N, e, sticky) ==
    CHOOSE r \in {RoundValue(neg, n, y, sticky) : n \in {N}, y \in {e}} : TRUE

AddAligned(aneg, A, bneg, B, e, c) ==
    IF aneg = bneg THEN Float(aneg, BigAdd(A, B), e)
    ELSE IF c = 0 THEN PosZero
    ELSE IF c = 1 THEN Float(aneg, BigSub(A, B), e)
    ELSE Float(bneg, BigSub(B, A), e)

AddShifted(aneg, A, bneg, B, e) == AddAligned(aneg, A, bneg, B, e, BigCmp(A, B))

AddAt(a, b, e) ==
    CHOOSE r \in {AddShifted(a.neg, A, b.neg, B, e) :
                    A \in {BigShl(a.man, a.exp - e)},
                    B \in {BigShl(b.man, b.exp - e)}} : TRUE

AddValuesExact(a, b) ==
    IF a.man = <<>> THEN b
    ELSE IF b.man = <<>> THEN a
    ELSE AddAt(a, b, IF a.exp < b.exp THEN a.exp ELSE b.exp)

\* The exact sum of two dyadic rationals [neg, man, exp] (no rounding).
ExactAdd(a, b) == CHOOSE r \in {AddValuesExact(x, y) : x \in {a}, y \in {b}} : TRUE

RoundDyadic(s) == Round53(s.neg, s.man, s.exp, FALSE)

AddFloats(a, b) ==
    IF a.cls = "nan" \/ b.cls = "nan" THEN NaN
    ELSE IF a.cls = "inf" THEN (IF b.cls = "inf" /\ a.neg # b.neg THEN NaN ELSE a)
    ELSE IF b.cls = "inf" THEN b
    ELSE IF IsZero(a) /\ IsZero(b) THEN Float(a.neg /\ b.neg, <<>>, 0)
    ELSE CHOOSE r \in {RoundDyadic(s) : s \in {ExactAdd(a, b)}} : TRUE

\* float.__add__: the correctly rounded sum; x + (-x) is +0.0, -0.0 + -0.0 is
\* -0.0, inf + -inf is nan, a sum past the largest double is an infinity
FloatAdd(a, b) == CHOOSE r \in {AddFloats(x, y) : x \in {a}, y \in {b}} : TRUE

RoundQuotient(neg, d, e) == Round53(neg, d.q, e, d.r # 0)

\* A faulty FloatDivInt: the quotient cut off (rounded toward zero) instead of
\* rounded to nearest.
FloatDivIntTruncated(x, n) ==
    IF x.cls # "finite" \/ IsZero(x) THEN x
    ELSE CHOOSE r \in {Float(x.neg, BigShr(d.q, BitLen(d.q) - Precision),
                             x.exp - 2 * LimbBits + BitLen(d.q) - Precision) :
                         d \in {BigDivSmall(BigShlLimbs(x.man, 2), n)}} : TRUE

DivFloat(x, n) ==
    IF x.cls # "finite" THEN x
    ELSE CHOOSE r \in {RoundQuotient(x.neg, d, x.exp - 2 * LimbBits) :
                         d \in {BigDivSmall(BigShlLimbs(x.man, 2), n)}} : TRUE

\* float.__truediv__ by the int n >= 1 (converted to float exactly): the
\* correctly rounded quotient.
FloatDivInt(x, n) == CHOOSE r \in {DivFloat(y, n) : y \in {x}} : TRUE

\* float.__eq__: -0.0 == 0.0, nan equals nothing
FloatEq(a, b) ==
    /\ a.cls # "nan"
    /\ b.cls # "nan"
    /\ (IsZero(a) /\ IsZero(b)) \/ a = b

(***************************************************************************)
(* float(str), as argparse applies it to a token (type=float), and         *)
(* repr(float), as print applies it.  A string of the command line is      *)
(* handled as the sequence of its characters.  A character is a string of  *)
(* one character; a character past U+00FF, which no string of this module  *)
(* can hold, is written by its code point, as "U+0661".                    *)
(***************************************************************************)
Digits == <<"0", "1", "2", "3", "4", "5", "6", "7", "8", "9">>

IsDigit(c) == \E d \in 1..10 : Digits[d] = c

DigitVal(c) == (CHOOSE d \in 1..10 : Digits[d] = c) - 1

AllDigits(s) == \A i \in 1..Len(s) : IsDigit(s[i])

\* The decimal digits of Unicode 14 (category Nd, the characters with
\* Py_UNICODE_TODECIMAL and the \d of a pattern), a row for each run of ten
\* from its zero to its nine
DecimalRows ==
    <<
       <<"0", "1", "2", "3", "4", "5", "6", "7", "8", "9">>,
       <<"U+0660", "U+0661", "U+0662", "U+0663", "U+0664",
         "U+0665", "U+0666", "U+0667", "U+0668", "U+0669">>,
       <<"U+06F0", "U+06F1", "U+06F2", "U+06F3", "U+06F4",
         "U+06F5", "U+06F6", "U+06F7", "U+06F8", "U+06F9">>,
       <<"U+07C0", "U+07C1", "U+07C2", "U+07C3", "U+07C4",
         "U+07C5", "U+07C6", "U+07C7", "U+07C8", "U+07C9">>,
       <<"U+0966", "U+0967", "U+0968", "U+0969", "U+096A",
         "U+096B", "U+096C", "U+096D", "U+096E", "U+096F">>,
       <<"U+09E6", "U+09E7", "U+09E8", "U+09E9", "U+09EA",
         "U+09EB", "U+09EC", "U+09ED", "U+09EE", "U+09EF">>,
       <<"U+0A66", "U+0A67", "U+0A68", "U+0A69", "U+0A6A",
         "U+0A6B", "U+0A6C", "U+0A6D", "U+0A6E", "U+0A6F">>,
       <<"U+0AE6", "U+0AE7", "U+0AE8", "U+0AE9", "U+0AEA",
         "U+0AEB", "U+0AEC", "U+0AED", "U+0AEE", "U+0AEF">>,
       <<"U+0B66", "U+0B67", "U+0B68", "U+0B69", "U+0B6A",
         "U+0B6B", "U+0B6C", "U+0B6D", "U+0B6E", "U+0B6F">>,
       <<"U+0BE6", "U+0BE7", "U+0BE8", "U+0BE9", "U+0BEA",
         "U+0BEB", "U+0BEC", "U+0BED", "U+0BEE", "U+0BEF">>,
       <<"U+0C66", "U+0C67", "U+0C68", "U+0C69", "U+0C6A",
         "U+0C6B", "U+0C6C", "U+0C6D", "U+0C6E", "U+0C6F">>,
       <<"U+0CE6", "U+0CE7", "U+0CE8", "U+0CE9", "U+0CEA",
         "U+0CEB", "U+0CEC", "U+0CED", "U+0CEE", "U+0CEF">>,
       <<"U+0D66", "U+0D67", "U+0D68", "U+0D69", "U+0D6A",
         "U+0D6B", "U+0D6C", "U+0D6D", "U+0D6E", "U+0D6F">>,
       <<"U+0DE6", "U+0DE7", "U+0DE8", "U+0DE9", "U+0DEA",
         "U+0DEB", "U+0DEC", "U+0DED", "U+0DEE", "U+0DEF">>,
       <<"U+0E50", "U+0E51", "U+0E52", "U+0E53", "U+0E54",
         "U+0E55", "U+0E56", "U+0E57", "U+0E58", "U+0E59">>,
       <<"U+0ED0", "U+0ED1", "U+0ED2", "U+0ED3", "U+0ED4",
         "U+0ED5", "U+0ED6", "U+0ED7", "U+0ED8", "U+0ED9">>,
       <<"U+0F20", "U+0F21", "U+0F22", "U+0F23", "U+0F24",
         "U+0F25", "U+0F26", "U+0F27", "U+0F28", "U+0F29">>,
       <<"U+1040", "U+1041", "U+1042", "U+1043", "U+1044",
         "U+1045", "U+1046", "U+1047", "U+1048", "U+1049">>,
       <<"U+1090", "U+1091", "U+1092", "U+1093", "U+1094",
         "U+1095", "U+1096", "U+1097", "U+1098", "U+1099">>,
       <<"U+17E0", "U+17E1", "U+17E2", "U+17E3", "U+17E4",
         "U+17E5", "U+17E6", "U+17E7", "U+17E8", "U+17E9">>,
       <<"U+1810", "U+1811", "U+1812", "U+1813", "U+1814",
         "U+1815", "U+1816", "U+1817", "U+1818", "U+1819">>,
       <<"U+1946", "U+1947", "U+1948", "U+1949", "U+194A",
         "U+194B", "U+194C", "U+194D", "U+194E", "U+194F">>,
       <<"U+19D0", "U+19D1", "U+19D2", "U+19D3", "U+19D4",
         "U+19D5", "U+19D6", "U+19D7", "U+19D8", "U+19D9">>,
       <<"U+1A80", "U+1A81", "U+1A82", "U+1A83", "U+1A84",
         "U+1A85", "U+1A86", "U+1A87", "U+1A88", "U+1A89">>,
       <<"U+1A90", "U+1A91", "U+1A92", "U+1A93", "U+1A94",
         "U+1A95", "U+1A96", "U+1A97", "U+1A98", "U+1A99">>,
       <<"U+1B50", "U+1B51", "U+1B52", "U+1B53", "U+1B54",
         "U+1B55", "U+1B56", "U+1B57", "U+1B58", "U+1B59">>,
       <<"U+1BB0", "U+1BB1", "U+1BB2", "U+1BB3", "U+1BB4",
         "U+1BB5", "U+1BB6", "U+1BB7", "U+1BB8", "U+1BB9">>,
       <<"U+1C40", "U+1C41", "U+1C42", "U+1C43", "U+1C44",
         "U+1C45", "U+1C46", "U+1C47", "U+1C48", "U+1C49">>,
       <<"U+1C50", "U+1C51", "U+1C52", "U+1C53", "U+1C54",
         "U+1C55", "U+1C56", "U+1C57", "U+1C58", "U+1C59">>,
       <<"U+A620", "U+A621", "U+A622", "U+A623", "U+A624",
         "U+A625", "U+A626", "U+A627", "U+A628", "U+A629">>,
       <<"U+A8D0", "U+A8D1", "U+A8D2", "U+A8D3", "U+A8D4",
         "U+A8D5", "U+A8D6", "U+A8D7", "U+A8D8", "U+A8D9">>,
       <<"U+A900", "U+A901", "U+A902", "U+A903", "U+A904",
         "U+A905", "U+A906", "U+A907", "U+A908", "U+A909">>,
       <<"U+A9D0", "U+A9D1", "U+A9D2", "U+A9D3", "U+A9D4",
         "U+A9D5", "U+A9D6", "U+A9D7", "U+A9D8", "U+A9D9">>,
       <<"U+A9F0", "U+A9F1", "U+A9F2", "U+A9F3", "U+A9F4",
         "U+A9F5", "U+A9F6", "U+A9F7", "U+A9F8", "U+A9F9">>,
       <<"U+AA50", "U+AA51", "U+AA52", "U+AA53", "U+AA54",
         "U+AA55", "U+AA56", "U+AA57", "U+AA58", "U+AA59">>,
       <<"U+ABF0", "U+ABF1", "U+ABF2", "U+ABF3", "U+ABF4",
         "U+ABF5", "U+ABF6", "U+ABF7", "U+ABF8", "U+ABF9">>,
       <<"U+FF10", "U+FF11", "U+FF12", "U+FF13", "U+FF14",
         "U+FF15", "U+FF16", "U+FF17", "U+FF18", "U+FF19">>,
       <<"U+104A0", "U+104A1", "U+104A2", "U+104A3", "U+104A4",
         "U+104A5", "U+104A6", "U+104A7", "U+104A8", "U+104A9">>,
       <<"U+10D30", "U+10D31", "U+10D32", "U+10D33", "U+10D34",
         "U+10D35", "U+10D36", "U+10D37", "U+10D38", "U+10D39">>,
       <<"U+11066", "U+11067", "U+11068", "U+11069", "U+1106A",
         "U+1106B", "U+1106C", "U+1106D", "U+1106E", "U+1106F">>,
       <<"U+110F0", "U+110F1", "U+110F2", "U+110F3", "U+110F4",
         "U+110F5", "U+110F6", "U+110F7", "U+110F8", "U+110F9">>,
       <<"U+11136", "U+11137", "U+11138", "U+11139", "U+1113A",
         "U+1113B", "U+1113C", "U+1113D", "U+1113E", "U+1113F">>,
       <<"U+111D0", "U+111D1", "U+111D2", "U+111D3", "U+111D4",
         "U+111D5", "U+111D6", "U+111D7", "U+111D8", "U+111D9">>,
       <<"U+112F0", "U+112F1", "U+112F2", "U+112F3", "U+112F4",
         "U+112F5", "U+112F6", "U+112F7", "U+112F8", "U+112F9">>,
       <<"U+11450", "U+11451", "U+11452", "U+11453", "U+11454",
         "U+11455", "U+11456", "U+11457", "U+11458", "U+11459">>,
       <<"U+114D0", "U+114D1", "U+114D2", "U+114D3", "U+114D4",
         "U+114D5", "U+114D6", "U+114D7", "U+114D8", "U+114D9">>,
       <<"U+11650", "U+11651", "U+11652", "U+11653", "U+11654",
         "U+11655", "U+11656", "U+11657", "U+11658", "U+11659">>,
       <<"U+116C0", "U+116C1", "U+116C2", "U+116C3", "U+116C4",
         "U+116C5", "U+116C6", "U+116C7", "U+116C8", "U+116C9">>,
       <<"U+11730", "U+11731", "U+11732", "U+11733", "U+11734",
         "U+11735", "U+11736", "U+11737", "U+11738", "U+11739">>,
       <<"U+118E0", "U+118E1", "U+118E2", "U+118E3", "U+118E4",
         "U+118E5", "U+118E6", "U+118E7", "U+118E8", "U+118E9">>,
       <<"U+11950", "U+11951", "U+11952", "U+11953", "U+11954",
         "U+11955", "U+11956", "U+11957", "U+11958", "U+11959">>,
       <<"U+11C50", "U+11C51", "U+11C52", "U+11C53", "U+11C54",
         "U+11C55", "U+11C56", "U+11C57", "U+11C58", "U+11C59">>,
       <<"U+11D50", "U+11D51", "U+11D52", "U+11D53", "U+11D54",
         "U+11D55", "U+11D56", "U+11D57", "U+11D58", "U+11D59">>,
       <<"U+11DA0", "U+11DA1", "U+11DA2", "U+11DA3", "U+11DA4",
         "U+11DA5", "U+11DA6", "U+11DA7", "U+11DA8", "U+11DA9">>,
       <<"U+16A60", "U+16A61", "U+16A62", "U+16A63", "U+16A64",
         "U+16A65", "U+16A66", "U+16A67", "U+16A68", "U+16A69">>,
       <<"U+16AC0", "U+16AC1", "U+16AC2", "U+16AC3", "U+16AC4",
         "U+16AC5", "U+16AC6", "U+16AC7", "U+16AC8", "U+16AC9">>,
       <<"U+16B50", "U+16B51", "U+16B52", "U+16B53", "U+16B54",
         "U+16B55", "U+16B56", "U+16B57", "U+16B58", "U+16B59">>,
       <<"U+1D7CE", "U+1D7CF", "U+1D7D0", "U+1D7D1", "U+1D7D2",
         "U+1D7D3", "U+1D7D4", "U+1D7D5", "U+1D7D6", "U+1D7D7">>,
       <<"U+1D7D8", "U+1D7D9", "U+1D7DA", "U+1D7DB", "U+1D7DC",
         "U+1D7DD", "U+1D7DE", "U+1D7DF", "U+1D7E0", "U+1D7E1">>,
       <<"U+1D7E2", "U+1D7E3", "U+1D7E4", "U+1D7E5", "U+1D7E6",
         "U+1D7E7", "U+1D7E8", "U+1D7E9", "U+1D7EA", "U+1D7EB">>,
       <<"U+1D7EC", "U+1D7ED", "U+1D7EE", "U+1D7EF", "U+1D7F0",
         "U+1D7F1", "U+1D7F2", "U+1D7F3", "U+1D7F4", "U+1D7F5">>,
       <<"U+1D7F6", "U+1D7F7", "U+1D7F8", "U+1D7F9", "U+1D7FA",
         "U+1D7FB", "U+1D7FC", "U+1D7FD", "U+1D7FE", "U+1D7FF">>,
       <<"U+1E140", "U+1E141", "U+1E142", "U+1E143", "U+1E144",
         "U+1E145", "U+1E146", "U+1E147", "U+1E148", "U+1E149">>,
       <<"U+1E2F0", "U+1E2F1", "U+1E2F2", "U+1E2F3", "U+1E2F4",
         "U+1E2F5", "U+1E2F6", "U+1E2F7", "U+1E2F8", "U+1E2F9">>,
       <<"U+1E950", "U+1E951", "U+1E952", "U+1E953", "U+1E954",
         "U+1E955", "U+1E956", "U+1E957", "U+1E958", "U+1E959">>,
       <<"U+1FBF0", "U+1FBF1", "U+1FBF2", "U+1FBF3", "U+1FBF4",
         "U+1FBF5", "U+1FBF6", "U+1FBF7", "U+1FBF8", "U+1FBF9">>
    >>

\* the characters of decimal value d
DecimalClass ==
    [d \in 0..9 |-> {DecimalRows[r][d + 1] : r \in 1..Len(DecimalRows)}]

IsDecimal(c) == \E d \in 0..9 : c \in DecimalClass[d]

DecimalVal(c) == CHOOSE d \in 0..9 : c \in DecimalClass[d]

AllDecimals(s) == \A i \in 1..Len(s) : IsDecimal(s[i])

\* The white space of Unicode past ASCII (Py_UNICODE_ISSPACE): next line
\* (U+0085) and no-break space (U+00A0), held as they are, and the spaces and
\* separators past U+00FF
UnicodeSpaces ==
    {"", " ",
     "U+1680", "U+2000", "U+2001", "U+2002", "U+2003", "U+2004",
     "U+2005", "U+2006", "U+2007", "U+2008", "U+2009", "U+200A",
     "U+2028", "U+2029", "U+202F", "U+205F", "U+3000"}

ToASCII(c) ==
    IF c \in UnicodeSpaces THEN " "
    ELSE IF IsDecimal(c) THEN Digits[DecimalVal(c) + 1]
    ELSE c

\* _PyUnicode_TransformDecimalAndSpaceToASCII: white space past ASCII becomes
\* a space and a decimal digit its ASCII digit.  (Another character past
\* ASCII, which the code replaces by "?", is left: float() refuses both.)
TransformDecimalAndSpaceToASCII(s) == [i \in 1..Len(s) |-> ToASCII(s[i])]

\* The first position of s that holds one of cs, 0 for none
IndexOf(s, cs) ==
    IF \E i \in 1..Len(s) : s[i] \in cs
    THEN CHOOSE i \in 1..Len(s) : s[i] \in cs /\ \A j \in 1..(i - 1) : s[j] \notin cs
    ELSE 0

RECURSIVE IntOfDigits(_, _)
IntOfDigits(ds, acc) ==
    IF ds = <<>> THEN acc ELSE IntOfDigits(Tail(ds), 10 * acc + DigitVal(Head(ds)))

\* the natural number a string of digits spells
RECURSIVE BigOfDigits(_)
BigOfDigits(ds) ==
    IF Len(ds) <= 4 THEN BigOfInt(IntOfDigits(ds, 0))
    ELSE CHOOSE r \in {BigAdd(MulPow10(front, Len(ds) - Len(ds) \div 2), back) :
                         front \in {BigOfDigits(SubSeq(ds, 1, Len(ds) \div 2))},
                         back \in {BigOfDigits(SubSeq(ds, Len(ds) \div 2 + 1, Len(ds)))}} : TRUE

DivStepValue(st, d) == [q |-> d.q, sticky |-> st.sticky \/ d.r # 0]

DivStepBy(st, m) ==
    CHOOSE r \in {DivStepValue(st, d) : d \in {BigDivSmall(st.q, m)}} : TRUE

DivStep(st, m) == CHOOSE r \in {DivStepBy(s, m) : s \in {st}} : TRUE

\* floor(st.q / 10^k), sticky once a remainder was cut off
RECURSIVE DivPow10(_, _)
DivPow10(st, k) ==
    IF k <= 4 THEN DivStep(st, 10^k)
    ELSE CHOOSE r \in {DivPow10(half, k - k \div 2) :
                         half \in {DivPow10(st, k \div 2)}} : TRUE

RoundScaled(neg, d, e) == Round53(neg, d.q, e, d.sticky)

\* The double nearest to sign * P * 10^x; for x < 0, P is scaled by enough
\* limbs for the quotient to keep more than Precision bits
DecToFloat(neg, P, x) ==
    IF x >= 0 THEN Round53(neg, MulPow10(P, x), 0, FALSE)
    ELSE CHOOSE r \in
           {RoundScaled(neg, d, 0 - LimbBits * (5 + (0 - x) \div 4)) :
              d \in {DivPow10([q |-> BigShlLimbs(P, 5 + (0 - x) \div 4),
                              sticky |-> FALSE], 0 - x)}} : TRUE

\* Every double is below 10^MaxDecimal, and a value below 10^MinDecimal is
\* nearer to zero than to the smallest double.
MaxDecimal == 309

MinDecimal == -324

\* an exponent of more digits than this is past every double, whatever the
\* significand of the lengths handled here
MaxExponentDigits == 6

WithoutLeadingZeros(ds) ==
    IF \A i \in 1..Len(ds) : ds[i] = "0" THEN <<>>
    ELSE SubSeq(ds,
                CHOOSE i \in 1..Len(ds) :
                    ds[i] # "0" /\ \A j \in 1..(i - 1) : ds[j] = "0",
                Len(ds))

\* sign * 0.d1...dn * 10^point, ds = d1...dn without leading zeros: past the
\* doubles on either side without arithmetic, else the nearest double
DecimalToFloat(neg, ds, point) ==
    IF ds = <<>> THEN Float(neg, <<>>, 0)
    ELSE IF point > MaxDecimal THEN Inf(neg)
    ELSE IF point <= MinDecimal THEN Float(neg, <<>>, 0)
    ELSE DecToFloat(neg, BigOfDigits(ds), point - Len(ds))

\* the value of the digits of an exponent, capped
ExponentValue(ds) ==
    IF Len(ds) > MaxExponentDigits THEN 10^MaxExponentDigits
    ELSE IntOfDigits(ds, 0)

ValueError == [ok |-> FALSE, val |-> PosZero]

\* int . frac e x: the decimal point of 0.d1...dn is Len(int) + x places
\* right of the digits' start, less the leading zeros dropped
ParseDigits(neg, int, frac, x) ==
    [ok  |-> TRUE,
     val |-> DecimalToFloat(neg, WithoutLeadingZeros(int \o frac),
                            x + Len(int)
                              - (Len(int \o frac) - Len(WithoutLeadingZeros(int \o frac))))]

ParseParts(neg, mant, dot, eDig, eNeg) ==
    LET int  == IF dot = 0 THEN mant ELSE SubSeq(mant, 1, dot - 1)
        frac == IF dot = 0 THEN <<>> ELSE SubSeq(mant, dot + 1, Len(mant))
    IN  IF /\ AllDigits(int) /\ AllDigits(frac)
           /\ Len(int) + Len(frac) >= 1
           /\ eDig # <<>> /\ AllDigits(eDig)
        THEN ParseDigits(neg, int, frac,
                         IF eNeg THEN 0 - ExponentValue(WithoutLeadingZeros(eDig))
                         ELSE ExponentValue(WithoutLeadingZeros(eDig)))
        ELSE ValueError

ParseDecimal(neg, mant, eDig, eNeg) ==
    ParseParts(neg, mant, IndexOf(mant, {"."}), eDig, eNeg)

ParseExponent(neg, mant, expo) ==
    IF expo # <<>> /\ expo[1] \in {"+", "-"}
    THEN ParseDecimal(neg, mant, Tail(expo), expo[1] = "-")
    ELSE ParseDecimal(neg, mant, expo, FALSE)

SplitExponent(neg, body, ePos) ==
    IF ePos = 0 THEN ParseDecimal(neg, body, <<"0">>, FALSE)
    ELSE ParseExponent(neg, SubSeq(body, 1, ePos - 1), SubSeq(body, ePos + 1, Len(body)))

\* the lower-case letter of a letter of inf, infinity and nan
Lower(c) ==
    CASE c = "I" -> "i"
      [] c = "N" -> "n"
      [] c = "F" -> "f"
      [] c = "T" -> "t"
      [] c = "Y" -> "y"
      [] c = "A" -> "a"
      [] OTHER -> c

LowerCase(s) == [i \in 1..Len(s) |-> Lower(s[i])]

\* _Py_parse_inf_or_nan: inf, infinity or nan in any case
InfOrNan(neg, word) ==
    IF word \in {<<"i", "n", "f">>, <<"i", "n", "f", "i", "n", "i", "t", "y">>}
    THEN [ok |-> TRUE, val |-> Inf(neg)]
    ELSE IF word = <<"n", "a", "n">> THEN [ok |-> TRUE, val |-> NaN]
    ELSE ValueError

\* a decimal number, or else inf or nan
ParseUnsigned(neg, body) ==
    IF body # <<>> /\ (IsDigit(body[1]) \/ body[1] = ".")
    THEN SplitExponent(neg, body, IndexOf(body, {"e", "E"}))
    ELSE InfOrNan(neg, LowerCase(body))

ParseSigned(s) ==
    IF s # <<>> /\ s[1] \in {"+", "-"} THEN ParseUnsigned(s[1] = "-", Tail(s))
    ELSE ParseUnsigned(FALSE, s)

\* Py_ISSPACE, the white space float() strips: space, tab, line feed,
\* vertical tab (U+000B, held as it is), form feed, carriage return.  The
\* separators U+001C to U+001F are none of it.
Whitespace == {" ", "\t", "\n", "", "\f", "\r"}

IsSpace(c) == c \in Whitespace

\* s without the white space around it
Strip(s) ==
    IF \A i \in 1..Len(s) : IsSpace(s[i]) THEN <<>>
    ELSE SubSeq(s,
                CHOOSE i \in 1..Len(s) :
                    ~IsSpace(s[i]) /\ \A j \in 1..(i - 1) : IsSpace(s[j]),
                CHOOSE i \in 1..Len(s) :
                    ~IsSpace(s[i]) /\ \A j \in (i + 1)..Len(s) : IsSpace(s[j]))

\* _Py_string_to_number_with_underscores: an underscore stands only between
\* two digits
UnderscoresBetweenDigits(s) ==
    \A i \in 1..Len(s) :
        s[i] = "_" => /\ 1 < i
                      /\ i < Len(s)
                      /\ IsDigit(s[i - 1])
                      /\ IsDigit(s[i + 1])

NotUnderscore(c) == c # "_"

WithoutUnderscores(s) ==
    IF UnderscoresBetweenDigits(s)
    THEN ParseSigned(SelectSeq(s, NotUnderscore))
    ELSE ValueError

\* float(s): [ok |-> FALSE] is ValueError.  Accepted, with white space around
\* it and single underscores between digits: [sign] digits [. [digits]] or
\* [sign] . digits, then an optional exponent e [sign] digits; [sign] inf,
\* [sign] infinity, [sign] nan.  The digits are those of any script.
pyfloat(s) == WithoutUnderscores(Strip(TransformDecimalAndSpaceToASCII(s)))

\* floor(R / S) and the remainder, for R < 10 * S, by subtraction
RECURSIVE QuotientDigit(_, _, _)
QuotientDigit(R, S, d) ==
    IF BigCmp(R, S) = -1 THEN [d |-> d, r |-> R]
    ELSE CHOOSE r \in {QuotientDigit(rest, S, d + 1) : rest \in {BigSub(R, S)}} : TRUE

\* The last digit: d, or d + 1 when rounding up is nearer (c2 compares twice
\* what is left with one unit of the digit).
LastDigit(d, low, high, c2) ==
    IF low /\ ~high THEN <<d>>
    ELSE IF high /\ ~low THEN <<d + 1>>
    ELSE IF c2 = -1 \/ (c2 = 0 /\ d % 2 = 0) THEN <<d>>
    ELSE <<d + 1>>

RECURSIVE ShortestFrom(_, _, _, _, _)

ChooseDigit(d, R, S, Mm, Mp, even, cl, ch) ==
    LET low  == cl = -1 \/ (even /\ cl = 0)
        high == ch = 1 \/ (even /\ ch = 0)
    IN  IF ~low /\ ~high THEN <<d>> \o ShortestFrom(R, S, Mm, Mp, even)
        ELSE LastDigit(d, low, high, BigCmp(BigMulSmall(R, 2), S))

EmitDigit(q, S, Mm, Mp, even) ==
    CHOOSE r \in {ChooseDigit(q.d, q.r, S, Mm, Mp, even, cl, ch) :
                    cl \in {BigCmp(q.r, Mm)},
                    ch \in {BigCmp(BigAdd(q.r, Mp), S)}} : TRUE

NextDigit(R10, S, Mm, Mp, even) ==
    CHOOSE r \in {EmitDigit(q, S, Mm, Mp, even) :
                    q \in {QuotientDigit(R10, S, 0)}} : TRUE

\* The digits of the shortest decimal that rounds to the double, nearest to it
\* among the shortest: R / S is what is left of the value, Mm / S and Mp / S the
\* room down and up to the halfway points to the neighbouring doubles, which
\* the double wins when its significand is even.
ShortestFrom(R, S, Mm, Mp, even) ==
    CHOOSE r \in {NextDigit(R10, S, Mm10, Mp10, even) :
                    R10 \in {BigMulSmall(R, 10)},
                    Mm10 \in {BigMulSmall(Mm, 10)},
                    Mp10 \in {BigMulSmall(Mp, 10)}} : TRUE

\* the upper halfway point is at or past S (one: 10^point)
ReachesOne(R, S, Mp, even) ==
    CHOOSE r \in {c = 1 \/ (even /\ c = 0) : c \in {BigCmp(BigAdd(R, Mp), S)}} : TRUE

\* point is lowered while the value and its room up stay below a tenth
RECURSIVE ScaleDown(_, _, _, _, _, _)
ScaleDown(R, S, Mm, Mp, even, point) ==
    IF ReachesOne(BigMulSmall(R, 10), S, BigMulSmall(Mp, 10), even)
    THEN [digits |-> ShortestFrom(R, S, Mm, Mp, even), point |-> point]
    ELSE CHOOSE r \in {ScaleDown(R10, S, Mm10, Mp10, even, point - 1) :
                         R10 \in {BigMulSmall(R, 10)},
                         Mm10 \in {BigMulSmall(Mm, 10)},
                         Mp10 \in {BigMulSmall(Mp, 10)}} : TRUE

\* point is raised until the value and its room up are below one
RECURSIVE ScaleUp(_, _, _, _, _, _)
ScaleUp(R, S, Mm, Mp, even, point) ==
    IF ReachesOne(R, S, Mp, even)
    THEN CHOOSE r \in {ScaleUp(R, S10, Mm, Mp, even, point + 1) :
                         S10 \in {BigMulSmall(S, 10)}} : TRUE
    ELSE ScaleDown(R, S, Mm, Mp, even, point)

\* The scaling starts at point est, near the decimal exponent of the value
ScaleFrom(R, S, Mm, Mp, even, est) ==
    IF est >= 0
    THEN CHOOSE r \in {ScaleUp(R, S10, Mm, Mp, even, est) :
                         S10 \in {MulPow10(S, est)}} : TRUE
    ELSE CHOOSE r \in {ScaleUp(R10, S, Mm10, Mp10, even, est) :
                         R10 \in {MulPow10(R, 0 - est)},
                         Mm10 \in {MulPow10(Mm, 0 - est)},
                         Mp10 \in {MulPow10(Mp, 0 - est)}} : TRUE

\* up and down are max(exp, 0) and max(-exp, 0), t the bits the fractions are
\* scaled by: 2 where the double below is half as far away as the one above
\* (the significand is the least of Precision bits), else 1; bits is the
\* number of bits of the integer part, 30103 / 100000 about log10(2)
ShortestScaled(x, up, down, t, bits) ==
    CHOOSE r \in {ScaleFrom(R, S, Mm, Mp, x.man[1] % 2 = 0,
                            ((bits - 1) * 30103) \div 100000) :
                    R \in {BigShl(x.man, up + t)},
                    S \in {BigShl(<<1>>, down + t)},
                    Mm \in {BigShl(<<1>>, up)},
                    Mp \in {BigShl(<<1>>, up + t - 1)}} : TRUE

\* The shortest digits d1...dn and the point with |x| = 0.d1...dn * 10^point,
\* for a finite x other than zero (mode 0 of _Py_dg_dtoa)
ShortestDigits(x) ==
    ShortestScaled(x,
                   IF x.exp > 0 THEN x.exp ELSE 0,
                   IF x.exp < 0 THEN 0 - x.exp ELSE 0,
                   IF x.man = BigShl(<<1>>, Precision - 1) /\ x.exp > MinExp
                   THEN 2 ELSE 1,
                   BitLen(x.man) + x.exp)

RECURSIVE DigitString(_)
DigitString(ds) ==
    IF ds = <<>> THEN "" ELSE Digits[ds[1] + 1] \o DigitString(Tail(ds))

Zeros(n) == DigitString([i \in 1..n |-> 0])

RECURSIVE DecimalDigits(_)
DecimalDigits(n) ==
    IF n < 10 THEN <<n>> ELSE DecimalDigits(n \div 10) \o <<n % 10>>

\* the exponent as repr writes it: a sign and at least two digits
ExponentString(e) ==
    (IF e < 0 THEN "-" ELSE "+")
    \o (IF e > -10 /\ e < 10 THEN "0" ELSE "")
    \o DigitString(DecimalDigits(IF e < 0 THEN 0 - e ELSE e))

\* format_float_short for repr: exponent notation where the point is more
\* than 16 places right or 4 or more places left of the first digit
FormatShort(ds, point) ==
    IF point > 16 \/ point <= -4
    THEN DigitString(<<ds[1]>>)
         \o (IF Len(ds) > 1 THEN "." \o DigitString(Tail(ds)) ELSE "")
         \o "e" \o ExponentString(point - 1)
    ELSE IF point <= 0
    THEN "0." \o Zeros(0 - point) \o DigitString(ds)
    ELSE IF point >= Len(ds)
    THEN DigitString(ds) \o Zeros(point - Len(ds)) \o ".0"
    ELSE DigitString(SubSeq(ds, 1, point)) \o "."
         \o DigitString(SubSeq(ds, point + 1, Len(ds)))

ReprShortest(sh) == FormatShort(sh.digits, sh.point)

ReprValue(x) ==
    IF x.cls = "nan" THEN "nan"
    ELSE IF x.cls = "inf" THEN (IF x.neg THEN "-inf" ELSE "inf")
    ELSE IF IsZero(x) THEN (IF x.neg THEN "-0.0" ELSE "0.0")
    ELSE CHOOSE r \in {(IF x.neg THEN "-" ELSE "") \o ReprShortest(sh) :
                         sh \in {ShortestDigits(x)}} : TRUE

\* repr(x): the shortest string that float() reads back as x
float_repr(x) == CHOOSE r \in {ReprValue(y) : y \in {x}} : TRUE

(***************************************************************************)
(* The repository's function.                                              *)
(***************************************************************************)
RECURSIVE pysum(_, _)
pysum(args, acc) ==
    IF args = <<>> THEN acc
    ELSE CHOOSE r \in {pysum(Tail(args), s) :
                         s \in {FloatAdd(acc, Head(args))}} : TRUE

\* A faulty avg: sum(args[1:]) / len(args), the first argument left out.
AvgDropsFirst(args) ==
    IF Len(args) = 0 THEN [raised |-> "ZeroDivisionError", value |-> PosZero]
    ELSE [raised |-> "none",
          value |-> FloatDivInt(pysum(Tail(args), PosZero), Len(args))]

\* A faulty avg: sum(args) / max(len(args), 1), no division by zero.
AvgGuardsEmpty(args) ==
    IF Len(args) = 0 THEN [raised |-> "none", value |-> PosZero]
    ELSE [raised |-> "none", value |-> FloatDivInt(pysum(args, PosZero), Len(args))]

\* def avg(*args): return sum(args) / len(args)
\* sum starts from the int 0; 0 / 0 raises ZeroDivisionError.
avg(args) ==
    IF Len(args) = 0 THEN [raised |-> "ZeroDivisionError", value |-> PosZero]
    ELSE [raised |-> "none", value |-> FloatDivInt(pysum(args, PosZero), Len(args))]

(***************************************************************************)
(* The command line.  sys.argv[1:] is a sequence of strings; Spell gives   *)
(* the characters of each string the model draws or probes.  In the name   *)
(* of a string, <VT>, <FS>, <NEL>, <NBSP> and <U+....> stand for the       *)
(* character U+000B, U+001C, U+0085, U+00A0 and the one of that code.      *)
(***************************************************************************)
MaxArgs == 4

Tokens ==
    {"--numbers", "4", "6", "1.5", "-1", "two", "-h", "-1e5", "inf", "-1\n",
     "--numbers=--"}

Spell(tok) ==
    CASE tok = "--numbers"   -> <<"-", "-", "n", "u", "m", "b", "e", "r", "s">>
      [] tok = "--help"      -> <<"-", "-", "h", "e", "l", "p">>
      [] tok = "-h"          -> <<"-", "h">>
      [] tok = "--num"       -> <<"-", "-", "n", "u", "m">>
      [] tok = "--numbers=4" -> <<"-", "-", "n", "u", "m", "b", "e", "r", "s", "=", "4">>
      [] tok = "--"          -> <<"-", "-">>
      [] tok = "-"           -> <<"-">>
      [] tok = "4"           -> <<"4">>
      [] tok = "6"           -> <<"6">>
      [] tok = "1"           -> <<"1">>
      [] tok = "2"           -> <<"2">>
      [] tok = "3"           -> <<"3">>
      [] tok = "1.5"         -> <<"1", ".", "5">>
      [] tok = "2.5"         -> <<"2", ".", "5">>
      [] tok = "0.1"         -> <<"0", ".", "1">>
      [] tok = "-0"          -> <<"-", "0">>
      [] tok = "-1"          -> <<"-", "1">>
      [] tok = "-.5"         -> <<"-", ".", "5">>
      [] tok = "-5."         -> <<"-", "5", ".">>
      [] tok = "-1e5"        -> <<"-", "1", "e", "5">>
      [] tok = "1e5"         -> <<"1", "e", "5">>
      [] tok = "two"         -> <<"t", "w", "o">>
      [] tok = "-x"          -> <<"-", "x">>
      [] tok = "-hx"         -> <<"-", "h", "x">>
      [] tok = "-h=3"        -> <<"-", "h", "=", "3">>
      [] tok = "--numbers="  -> <<"-", "-", "n", "u", "m", "b", "e", "r", "s", "=">>
      [] tok = "- 4"         -> <<"-", " ", "4">>
      [] tok = " 4"          -> <<" ", "4">>
      [] tok = "4\n"         -> <<"4", "\n">>
      [] tok = "-1\n"        -> <<"-", "1", "\n">>
      [] tok = "-1.5\n"      -> <<"-", "1", ".", "5", "\n">>
      [] tok = "1_0"         -> <<"1", "_", "0">>
      [] tok = "1__0"        -> <<"1", "_", "_", "0">>
      [] tok = "+1_0e+0"     -> <<"+", "1", "_", "0", "e", "+", "0">>
      [] tok = "1e1_0"       -> <<"1", "e", "1", "_", "0">>
      [] tok = "inf"         -> <<"i", "n", "f">>
      [] tok = "-inf"        -> <<"-", "i", "n", "f">>
      [] tok = "Infinity"    -> <<"I", "n", "f", "i", "n", "i", "t", "y">>
      [] tok = "nan"         -> <<"n", "a", "n">>
      [] tok = "NaN"         -> <<"N", "a", "N">>
      [] tok = "1e16"        -> <<"1", "e", "1", "6">>
      [] tok = "1e-5"        -> <<"1", "e", "-", "5">>
      [] tok = "1e308"       -> <<"1", "e", "3", "0", "8">>
      [] tok = "5e-324"      -> <<"5", "e", "-", "3", "2", "4">>
      [] tok = "1e400"       -> <<"1", "e", "4", "0", "0">>
      [] tok = "--numbers=--"-> <<"-", "-", "n", "u", "m", "b", "e", "r", "s", "=", "-", "-">>
      [] tok = "--num=--"    -> <<"-", "-", "n", "u", "m", "=", "-", "-">>
      [] tok = "4<VT>"       -> <<"4", "">>
      [] tok = "<VT>4"       -> <<"", "4">>
      [] tok = "-1<VT>"      -> <<"-", "1", "">>
      [] tok = "4<FS>"       -> <<"4", "">>
      [] tok = "4<NEL>"      -> <<"4", "">>
      [] tok = "<NBSP>4"     -> <<" ", "4">>
      [] tok = "4<U+2003>"   -> <<"4", "U+2003">>
      [] tok = "<U+0664>"    -> <<"U+0664">>
      [] tok = "-<U+0661>"   -> <<"-", "U+0661">>
      [] tok = "1_<U+FF10>"  -> <<"1", "_", "U+FF10">>
      [] tok = "1e<U+0661>"  -> <<"1", "e", "U+0661">>

(***************************************************************************)
(* parser = ArgumentParser(); parser.add_argument('--numbers', nargs='+',  *)
(* type=float); parser.parse_args().  The parser has two optionals, the    *)
(* -h/--help it adds itself and --numbers, and no positionals.             *)
(***************************************************************************)
\* A value that may be None: None itself, or a list (of characters, of floats).
None == [none |-> TRUE, list |-> <<>>]

List(l) == [none |-> FALSE, list |-> l]

OptionStrings == {"-h", "--help", "--numbers"}

ActionOf(opt) == IF opt = "--numbers" THEN "numbers" ELSE "help"

Option(o, explicit) == [action |-> ActionOf(o), option |-> o, explicit |-> explicit]

Argument == [action |-> "A", option |-> "", explicit |-> None]

StartsWith(s, p) == Len(p) <= Len(s) /\ SubSeq(s, 1, Len(p)) = p

NegativeDecimal(rest, dot) ==
    \/ rest # <<>> /\ AllDecimals(rest)
    \/ /\ dot # 0
       /\ AllDecimals(SubSeq(rest, 1, dot - 1))
       /\ dot < Len(rest)
       /\ AllDecimals(SubSeq(rest, dot + 1, Len(rest)))

\* $ of a pattern matches at the end of the string and before a newline that
\* ends it
BeforeFinalNewline(s) ==
    IF s # <<>> /\ s[Len(s)] = "\n" THEN SubSeq(s, 1, Len(s) - 1) ELSE s

MatchesNegativeNumber(s) ==
    /\ Len(s) >= 2
    /\ s[1] = "-"
    /\ NegativeDecimal(Tail(s), IndexOf(Tail(s), {"."}))

\* ArgumentParser._negative_number_matcher: ^-\d+$|^-\d*\.\d+$, \d a decimal
\* digit of any script
LooksNegativeNumber(s) ==
    MatchesNegativeNumber(s) \/ MatchesNegativeNumber(BeforeFinalNewline(s))

LongTuples(prefix, explicit) ==
    {Option(o, explicit) : o \in {o \in OptionStrings : StartsWith(Spell(o), prefix)}}

ShortTuples(s) ==
    {Option(o, List(SubSeq(s, 3, Len(s)))) :
       o \in {o \in OptionStrings : Spell(o) = SubSeq(s, 1, 2)}}
    \cup
    {Option(o, None) :
       o \in {o \in OptionStrings : Spell(o) # SubSeq(s, 1, 2) /\ StartsWith(Spell(o), s)}}

\* ArgumentParser._get_option_tuples: the options a string abbreviates, each
\* with the explicit argument the string carries (None for none); eq is the
\* position of its first "=".
OptionTuples(s, eq) ==
    IF s[2] = "-"
    THEN IF eq = 0 THEN LongTuples(s, None)
         ELSE LongTuples(SubSeq(s, 1, eq - 1), List(SubSeq(s, eq + 1, Len(s))))
    ELSE ShortTuples(s)

Abbreviation(s, tuples) ==
    IF Cardinality(tuples) > 1
    THEN [action |-> "ambiguous", option |-> "", explicit |-> None]
    ELSE IF Cardinality(tuples) = 1 THEN CHOOSE t \in tuples : TRUE
    ELSE IF LooksNegativeNumber(s) THEN Argument
    ELSE IF \E i \in 1..Len(s) : s[i] = " " THEN Argument
    ELSE [action |-> "unknown", option |-> "", explicit |-> None]

OptionNamed(s) == CHOOSE o \in OptionStrings : Spell(o) = s

IsOptionString(s) == \E o \in OptionStrings : Spell(o) = s

ParseOptionalAt(s, eq) ==
    IF s = <<>> THEN Argument
    ELSE IF s[1] # "-" THEN Argument
    ELSE IF IsOptionString(s) THEN Option(OptionNamed(s), None)
    ELSE IF Len(s) = 1 THEN Argument
    ELSE IF eq # 0 /\ IsOptionString(SubSeq(s, 1, eq - 1))
    THEN Option(OptionNamed(SubSeq(s, 1, eq - 1)), List(SubSeq(s, eq + 1, Len(s))))
    ELSE Abbreviation(s, OptionTuples(s, eq))

\* ArgumentParser._parse_optional: "A" for an argument, else the option found,
\* "unknown" for an option the parser does not have, "ambiguous" for an error.
ParseOptional(s) == ParseOptionalAt(s, IndexOf(s, {"="}))

\* The classification of every string: all strings after a "--" are arguments,
\* the "--" itself is neither ("-").
Classify(av) ==
    [i \in 1..Len(av) |->
       IF \E j \in 1..(i - 1) : Spell(av[j]) = <<"-", "-">> THEN Argument
       ELSE IF Spell(av[i]) = <<"-", "-">>
       THEN [action |-> "-", option |-> "", explicit |-> None]
       ELSE ParseOptional(Spell(av[i]))]

\* _match_argument for nargs='+' of an optional: the run of arguments that
\* follows the option.
RECURSIVE ArgRun(_, _)
ArgRun(kinds, i) ==
    IF i <= Len(kinds) /\ kinds[i].action = "A" THEN 1 + ArgRun(kinds, i + 1) ELSE 0

Converted(vals) ==
    IF \E i \in 1..Len(vals) : ~vals[i].ok THEN [ok |-> FALSE, values |-> <<>>]
    ELSE [ok |-> TRUE, values |-> [i \in 1..Len(vals) |-> vals[i].val]]

\* arg_strings.remove('--'): the strings without the first "--" among them
WithoutDoubleDash(strings, i) ==
    IF i = 0 THEN strings
    ELSE SubSeq(strings, 1, i - 1) \o SubSeq(strings, i + 1, Len(strings))

ConvertedStrings(strings) ==
    Converted([i \in 1..Len(strings) |-> pyfloat(strings[i])])

\* _get_values with type=float: the first "--" is dropped, the other strings
\* are converted; no values, unless float() refuses a string
FloatValues(strings) ==
    ConvertedStrings(WithoutDoubleDash(strings, IndexOf(strings, {<<"-", "-">>})))

ParseError(msg) == [outcome |-> "error", message |-> msg, numbers |-> None]

RECURSIVE Consume(_, _, _, _, _)

\* A faulty Store: a string float() refuses is taken for no values at all.
StoreIgnoringInvalid(av, kinds, i, v, extras) ==
    Consume(av, kinds, i, List(v.values), extras)

\* take_action of --numbers: store the converted values and go on at string i
Store(av, kinds, i, v, extras) ==
    IF v.ok THEN Consume(av, kinds, i, List(v.values), extras)
    ELSE ParseError("invalid float value")

\* A faulty ConsumeRun: nargs='*', which accepts the flag without values.
ConsumeRunStar(av, kinds, i, n, extras) ==
    Store(av, kinds, i + 1 + n, FloatValues([j \in 1..n |-> Spell(av[i + j])]), extras)

\* consume_optional of --numbers without an explicit argument: n strings follow
ConsumeRun(av, kinds, i, n, extras) ==
    IF n = 0 THEN ParseError("expected at least one argument")
    ELSE Store(av, kinds, i + 1 + n,
               FloatValues([j \in 1..n |-> Spell(av[i + j])]), extras)

\* consume_optional of -h/--help
ConsumeHelp(k, numbers) ==
    IF k.explicit.none
       \/ (/\ Spell(k.option) = <<"-", "h">>
           /\ k.explicit.list # <<>>
           /\ \A j \in 1..Len(k.explicit.list) : k.explicit.list[j] = "h")
    THEN [outcome |-> "help", message |-> "", numbers |-> numbers]
    ELSE ParseError("ignored explicit argument")

\* The loop of _parse_known_args from string i on: numbers is args.numbers so
\* far, extras whether a string was left unrecognized.
Consume(av, kinds, i, numbers, extras) ==
    IF i > Len(av)
    THEN IF extras THEN ParseError("unrecognized arguments")
         ELSE [outcome |-> "ok", message |-> "", numbers |-> numbers]
    ELSE IF kinds[i].action \in {"A", "-", "unknown"}
    THEN Consume(av, kinds, i + 1, numbers, TRUE)
    ELSE IF kinds[i].action = "help" THEN ConsumeHelp(kinds[i], numbers)
    ELSE IF ~kinds[i].explicit.none
    THEN Store(av, kinds, i + 1, FloatValues(<<kinds[i].explicit.list>>), extras)
    ELSE ConsumeRun(av, kinds, i, ArgRun(kinds, i + 1), extras)

ParseKnownArgs(av, kinds) ==
    IF \E i \in 1..Len(av) : kinds[i].action = "ambiguous"
    THEN ParseError("ambiguous option")
    ELSE Consume(av, kinds, 1, None, FALSE)

\* parser.parse_args(): "ok" with args.numbers (None when the flag is absent),
\* "help" (the help is printed, exit status 0) or "error" (exit status 2).
parse_args(av) == ParseKnownArgs(av, Classify(av))

HelpText ==
    << "usage: argparse_avg.py [-h] [--numbers NUMBERS [NUMBERS ...]]",
       "",
       "options:",
       "  -h, --help            show this help message and exit",
       "  --numbers NUMBERS [NUMBERS ...]" >>

(***************************************************************************)
(* The script as a state machine: one step per statement.                  *)
(***************************************************************************)
VARIABLES
    argv,      \* sys.argv[1:]
    pc,        \* the statement to run next
    numbers,   \* args.numbers: None, or the list of floats
    args,      \* the arguments avg was entered with, as a list
    result,    \* result, once avg has returned it
    stdout,    \* the lines written to standard output
    raised,    \* the exception that ended the run, "none" for none
    message,   \* what the parser reported when it rejected the command line
    exitcode   \* the exit status, -1 while the process runs

vars == <<argv, pc, numbers, args, result, stdout, raised, message, exitcode>>

RECURSIVE SeqsUpTo(_, _)
SeqsUpTo(S, n) ==
    IF n = 0 THEN {<<>>}
    ELSE SeqsUpTo(S, n - 1)
         \cup {Append(q, x) : q \in {q \in SeqsUpTo(S, n - 1) : Len(q) = n - 1}, x \in S}

Init ==
    /\ argv \in SeqsUpTo(Tokens, MaxArgs)
    /\ pc = "parse_args"
    /\ numbers = None
    /\ args = None
    /\ result = None
    /\ stdout = <<>>
    /\ raised = "none"
    /\ message = ""
    /\ exitcode = -1

\* A faulty Parsed: the parser's error message written to standard output.
ParsedErrorOnStdout(r) ==
    IF r.outcome = "ok"
    THEN /\ numbers' = r.numbers
         /\ pc' = "call"
         /\ UNCHANGED <<stdout, raised, message, exitcode>>
    ELSE /\ pc' = "exited"
         /\ raised' = "SystemExit"
         /\ message' = r.message
         /\ stdout' = IF r.outcome = "help" THEN HelpText ELSE <<HelpText[1], r.message>>
         /\ exitcode' = IF r.outcome = "help" THEN 0 ELSE 2
         /\ UNCHANGED numbers

\* What parse_args does to the process: it returns args, or argparse prints the
\* help and exits with status 0, or reports an error and exits with status 2.
Parsed(r) ==
    IF r.outcome = "ok"
    THEN /\ numbers' = r.numbers
         /\ pc' = "call"
         /\ UNCHANGED <<stdout, raised, message, exitcode>>
    ELSE /\ pc' = "exited"
         /\ raised' = "SystemExit"
         /\ message' = r.message
         /\ stdout' = IF r.outcome = "help" THEN HelpText ELSE stdout
         /\ exitcode' = IF r.outcome = "help" THEN 0 ELSE 2
         /\ UNCHANGED numbers

\* args = parser.parse_args()
ParseArgs ==
    /\ pc = "parse_args"
    /\ Parsed(parse_args(argv))
    /\ UNCHANGED <<argv, args, result>>

\* A faulty CallAvg: avg(*(args.numbers or [])), None unpacked as no arguments.
CallAvgNoneAsEmpty ==
    /\ pc = "call"
    /\ pc' = "avg"
    /\ args' = List(numbers.list)
    /\ UNCHANGED <<argv, numbers, result, stdout, raised, message, exitcode>>

\* A faulty CallAvg: the command line parsed again when the flag is absent.
CallAvgRetriesParse ==
    /\ pc = "call"
    /\ IF numbers.none
       THEN /\ pc' = "parse_args"
            /\ UNCHANGED args
       ELSE /\ pc' = "avg"
            /\ args' = numbers
    /\ UNCHANGED <<argv, numbers, result, stdout, raised, message, exitcode>>

\* avg(*args.numbers): unpacking None raises TypeError before avg is entered.
CallAvg ==
    /\ pc = "call"
    /\ IF numbers.none
       THEN /\ pc' = "exited"
            /\ raised' = "TypeError"
            /\ exitcode' = 1
            /\ UNCHANGED args
       ELSE /\ pc' = "avg"
            /\ args' = numbers
            /\ UNCHANGED <<raised, exitcode>>
    /\ UNCHANGED <<argv, numbers, result, stdout, message>>

\* What avg hands back: its value, bound to result, or the exception, which
\* nothing catches.
Returned(r) ==
    IF r.raised = "none"
    THEN /\ pc' = "print"
         /\ result' = List(<<r.value>>)
         /\ UNCHANGED <<raised, exitcode>>
    ELSE /\ pc' = "exited"
         /\ raised' = r.raised
         /\ exitcode' = 1
         /\ UNCHANGED result

\* return sum(args) / len(args); result = ...
AvgBody ==
    /\ pc = "avg"
    /\ Returned(avg(args.list))
    /\ UNCHANGED <<argv, numbers, args, stdout, message>>

\* print(result)
PrintResult ==
    /\ pc = "print"
    /\ stdout' = Append(stdout, float_repr(result.list[1]))
    /\ pc' = "end"
    /\ UNCHANGED <<argv, numbers, args, result, raised, message, exitcode>>

\* the end of the module: the interpreter exits with status 0
Exit ==
    /\ pc = "end"
    /\ pc' = "exited"
    /\ exitcode' = 0
    /\ UNCHANGED <<argv, numbers, args, result, stdout, raised, message>>

Next == ParseArgs \/ CallAvg \/ AvgBody \/ PrintResult \/ Exit

Spec == Init /\ [][Next]_vars

ProgramPoints == {"parse_args", "call", "avg", "print", "end", "exited"}

\* A process that has not exited moves on to another point of the script.
Running == pc # "exited" /\ pc' \in ProgramPoints \ {pc}

\* The interpreter runs the script's statements one after the other.  Next is
\* enabled exactly where pc # "exited" and each of its steps moves pc, so
\* WF_pc(Running) is WF_vars(Next).
FairSpec == Spec /\ WF_pc(Running)

(***************************************************************************)
(* avg as a function of its arguments: the inputs are drawn from a set of  *)
(* doubles, the only step is the body of avg.                              *)
(***************************************************************************)
MaxLen == 3

AvgValues ==
    {pyfloat(Spell(t)).val : t \in {"4", "6", "1.5", "2.5", "-1", "0.1", "-0", "1e5"}}

InitAvg ==
    /\ argv = <<>>
    /\ pc = "avg"
    /\ numbers = None
    /\ args \in {List(q) : q \in SeqsUpTo(AvgValues, MaxLen)}
    /\ result = None
    /\ stdout = <<>>
    /\ raised = "none"
    /\ message = ""
    /\ exitcode = -1

SpecAvg == InitAvg /\ [][AvgBody]_vars

(***************************************************************************)
(* Exact arithmetic on dyadic rationals [neg, man, exp] (man of any        *)
(* length), the reference the floating-point results are compared with.    *)
(***************************************************************************)
Negated(x) == Float(~x.neg, x.man, x.exp)

Magnitude(x) == Float(FALSE, x.man, x.exp)

Times(x, n) == Float(x.neg, BigMulSmall(x.man, n), x.exp)

TimesPow2(x, k) == Float(x.neg, x.man, x.exp + k)

NonNegative(x) == x.man = <<>> \/ ~x.neg

\* a <= b
AtMost(a, b) == NonNegative(ExactAdd(b, Negated(a)))

SameValue(a, b) == ExactAdd(a, Negated(b)).man = <<>>

RECURSIVE ExactSum(_)
ExactSum(xs) ==
    IF xs = <<>> THEN PosZero ELSE ExactAdd(Head(xs), ExactSum(Tail(xs)))

RECURSIVE ExactSumOfMagnitudes(_)
ExactSumOfMagnitudes(xs) ==
    IF xs = <<>> THEN PosZero
    ELSE ExactAdd(Magnitude(Head(xs)), ExactSumOfMagnitudes(Tail(xs)))

\* | n * r - (x1 + ... + xn) |, exactly
MeanError(xs, r) ==
    Magnitude(ExactAdd(Times(r, Len(xs)), Negated(ExactSum(xs))))

\* | r - mean | <= 2^-52 * (|x1| + ... + |xn|): the rounding errors of n
\* additions and one division, each at most 2^-53 relative.
WithinRoundingTolerance(xs, r) ==
    AtMost(TimesPow2(MeanError(xs, r), Precision - 1),
           Times(ExactSumOfMagnitudes(xs), Len(xs)))

\* | r - mean | <= half a unit in the last place of r
WithinHalfUlp(xs, r) ==
    AtMost(TimesPow2(MeanError(xs, r), 1), Float(FALSE, BigOfInt(Len(xs)), r.exp))

Range(q) == {q[i] : i \in 1..Len(q)}

Flags == {"--numbers", "-h", "--numbers=--"}

\* the strings float() accepts, and among them those argparse takes for values
ValidNumbers == {t \in Tokens : pyfloat(Spell(t)).ok}

PlainNumbers == {t \in ValidNumbers : ParseOptional(Spell(t)).action = "A"}

Values(strings) == [i \in 1..Len(strings) |-> pyfloat(Spell(strings[i])).val]

(***************************************************************************)
(* The claims.                                                             *)
(***************************************************************************)

\* C1: for every non-empty sequence of numbers, avg returns the sum of the
\* elements divided by their count, within floating-point rounding: the result
\* is within 2^-52 * sum|xi| of the exact mean, and within half a unit in the
\* last place of it (correctly rounded) when the floating-point sum is exact.
C1_AvgIsMean ==
    (pc = "print" /\ Len(args.list) >= 1) =>
        /\ WithinRoundingTolerance(args.list, result.list[1])
        /\ SameValue(pysum(args.list, PosZero), ExactSum(args.list))
             => WithinHalfUlp(args.list, result.list[1])

\* avg has returned for three arguments whose mean is no double (16 / 3)
C1_Witness ==
    /\ pc = "print"
    /\ args.list = Values(<<"4", "6", "6">>)
    /\ float_repr(result.list[1]) = "5.333333333333333"

\* C6: avg with no arguments fails with ZeroDivisionError and returns no value.
C6_EmptyRaises ==
    (args.list = <<>> /\ pc # "avg") =>
        /\ pc = "exited"
        /\ raised = "ZeroDivisionError"
        /\ result.none
        /\ exitcode = 1

\* avg has been run on the empty sequence
C6_Witness == ~args.none /\ args.list = <<>> /\ pc = "exited"

\* C7: for a single value x, avg(x) equals x.
C7_SingleIsIdentity ==
    (pc = "print" /\ Len(args.list) = 1) => FloatEq(result.list[1], args.list[1])

\* avg has returned for the single argument 0.1
C7_Witness ==
    /\ pc = "print"
    /\ args.list = Values(<<"0.1">>)
    /\ float_repr(result.list[1]) = "0.1"

\* the flag at position i of the command line is followed by no value: the
\* command line ends there, or the next string is a flag
ZeroValuesAt(i) ==
    /\ argv[i] = "--numbers"
    /\ i = Len(argv) \/ argv[i + 1] \in Flags

ZeroValues == \E i \in 1..Len(argv) : ZeroValuesAt(i)

\* the position of the first flag that is followed by no value
FirstZeroValues ==
    CHOOSE i \in 1..Len(argv) :
        ZeroValuesAt(i) /\ \A k \in 1..(i - 1) : ~ZeroValuesAt(k)

HelpBefore(i) == \E k \in 1..(i - 1) : argv[k] = "-h"

\* the values of the --numbers at position i (the strings after it up to the
\* next flag) include one float() refuses, and no help flag comes before it
InvalidValueAt(i) ==
    /\ argv[i] = "--numbers"
    /\ "-h" \notin {argv[k] : k \in 1..(i - 1)}
    /\ \E j \in (i + 1)..Len(argv) :
          /\ ~pyfloat(Spell(argv[j])).ok
          /\ \A k \in (i + 1)..j : ParseOptional(Spell(argv[k])).action = "A"

\* the parser finds no value after the --numbers at position i: the command line
\* ends there, or it reads the next string as an option
NoValueAt(i) ==
    /\ argv[i] = "--numbers"
    /\ i = Len(argv) \/ ParseOptional(Spell(argv[i + 1])).action # "A"

\* the position of the first --numbers the parser refuses
FirstRefused ==
    CHOOSE i \in 1..Len(argv) :
        /\ NoValueAt(i) \/ InvalidValueAt(i)
        /\ \A k \in 1..(i - 1) : ~(NoValueAt(k) \/ InvalidValueAt(k))

\* C2: (as the specification has it) --numbers with zero values reaches the
\* averaging step, which divides by zero: the run ends in ZeroDivisionError.
C2_Original ==
    (ZeroValues /\ pc = "exited" /\ "-h" \notin Range(argv)) =>
        /\ ~args.none
        /\ raised = "ZeroDivisionError"

\* C2: (amended) --numbers followed by no value (the command line ends after
\* it, or a flag follows) never reaches the call of avg, and nothing is divided.
\* Unless a help flag comes before that --numbers, the run ends in the parser,
\* with exit status 2, nothing on standard output and the error of the first
\* --numbers the parser refuses: "expected at least one argument" if it finds
\* no value after that flag, "invalid float value" if a value after it is no
\* number.
C2_ZeroValuesRejected ==
    ZeroValues =>
        /\ pc \in {"parse_args", "exited"}
        /\ args.none
        /\ raised \in {"none", "SystemExit"}
        /\ (pc = "exited" /\ ~HelpBefore(FirstZeroValues)) =>
              /\ raised = "SystemExit"
              /\ exitcode = 2
              /\ stdout = <<>>
              /\ message = IF NoValueAt(FirstRefused)
                           THEN "expected at least one argument"
                           ELSE "invalid float value"

\* the run of the flag alone has ended
C2_Witness ==
    /\ argv = <<"--numbers">>
    /\ pc = "exited"
    /\ exitcode = 2

\* no string of the command line is the flag, with or without a value joined
\* to it by "="
FlagOmitted ==
    \A i \in 1..Len(argv) : ~StartsWith(Spell(argv[i]), Spell("--numbers"))

\* C3: (as the specification has it) with the flag omitted the parser accepts
\* the command line and the run ends in the failure avg has on an empty
\* sequence, ZeroDivisionError.
C3_Original ==
    (FlagOmitted /\ pc = "exited" /\ raised # "SystemExit") =>
        raised = "ZeroDivisionError"

\* C3: (amended) with the flag omitted and nothing else on the command line the
\* parser accepts it and args.numbers is None; unpacking None for the call
\* raises TypeError before avg is entered, so the run ends as an unhandled
\* failure with exit status 1 and no output, and never in ZeroDivisionError.
C3_OmittedIsTypeError ==
    FlagOmitted =>
        /\ pc \notin {"avg", "print", "end"}
        /\ args.none
        /\ raised # "ZeroDivisionError"
        /\ pc = "call" => (argv = <<>> /\ numbers.none)
        /\ (pc = "exited" /\ argv = <<>>) =>
              /\ raised = "TypeError"
              /\ exitcode = 1
              /\ stdout = <<>>

\* the run of the empty command line has ended
C3_Witness ==
    /\ argv = <<>>
    /\ pc = "exited"
    /\ raised = "TypeError"

\* some string after a --numbers is neither the flag itself nor anything
\* float() accepts
UnparsableAfterFlag ==
    \E i \in 1..Len(argv) : \E j \in (i + 1)..Len(argv) :
        /\ argv[i] = "--numbers"
        /\ argv[j] # "--numbers"
        /\ ~pyfloat(Spell(argv[j])).ok

InvalidValue == \E i \in 1..Len(argv) : InvalidValueAt(i)

\* C4: (as the specification has it) if any token following --numbers cannot be
\* parsed as a float, the run fails in parsing: non-zero exit code, avg never
\* invoked, no output.
C4_Original ==
    UnparsableAfterFlag =>
        /\ args.none
        /\ pc = "exited" => (exitcode # 0 /\ stdout = <<>>)

\* C4: (amended) if a value given to --numbers cannot be parsed as a float and no
\* help flag precedes that --numbers, the run fails in parsing: exit status 2,
\* avg never invoked, no output.  A help flag is no such value: where the parser
\* reaches it, the help is printed and the run exits with status 0.
C4_InvalidValueRejected ==
    /\ InvalidValue =>
          /\ pc \in {"parse_args", "exited"}
          /\ args.none
          /\ pc = "exited" =>
                (raised = "SystemExit" /\ exitcode = 2 /\ stdout = <<>>)
    /\ (pc = "exited" /\ argv = <<"--numbers", "4", "two", "6">>) =>
          message = "invalid float value"
    /\ (pc = "exited" /\ Len(argv) >= 3 /\ argv[1] = "--numbers"
          /\ argv[2] \in PlainNumbers /\ argv[3] = "-h") =>
          (exitcode = 0 /\ stdout = HelpText /\ args.none)

\* the run of --numbers 4 two 6 has ended
C4_Witness ==
    /\ argv = <<"--numbers", "4", "two", "6">>
    /\ pc = "exited"
    /\ raised = "SystemExit"

\* the command line is --numbers f1 ... fn with n >= 1 and every fi a string
\* float() accepts
ValidInvocation ==
    /\ Len(argv) >= 2
    /\ argv[1] = "--numbers"
    /\ \A i \in 2..Len(argv) : argv[i] \in ValidNumbers

\* C5: every run of --numbers f1 ... fn, n >= 1 and every fi a valid number,
\* writes exactly one line, the mean of f1 ... fn, and exits with code 0.
C5_ValidInvocationPrintsMean ==
    (ValidInvocation /\ pc = "exited") =>
        /\ exitcode = 0
        /\ stdout = <<float_repr(avg(Values(Tail(argv))).value)>>

\* C8: at the averaging step the sequence of numbers is not empty.  (It is
\* empty in the run of --numbers=--: the parser drops the "--" and stores no
\* values at all.)
C8_NonEmptyAtAvg ==
    pc \in {"avg", "print", "end"} => (~args.none /\ Len(args.list) >= 1)

ParseFailure == pc = "exited" /\ message # ""

RuntimeFailure == pc = "exited" /\ raised \in {"TypeError", "ZeroDivisionError"}

\* C9: a run that ends in a parse failure or a runtime failure has a non-zero
\* exit code and has written nothing to standard output; a run that exits with
\* code 0 has written output; the result line is written only after parsing has
\* succeeded and the mean has been computed.
C9_ErrorsLeaveStdoutEmpty ==
    /\ (ParseFailure \/ RuntimeFailure) => (exitcode # 0 /\ stdout = <<>>)
    /\ (pc = "exited" /\ exitcode = 0) => stdout # <<>>
    /\ (stdout # <<>> /\ stdout # HelpText) =>
          /\ ~numbers.none
          /\ ~result.none
          /\ stdout = <<float_repr(result.list[1])>>
          /\ result.list[1] = avg(numbers.list).value

\* a run has failed in parsing after a value had been accepted
C9_Witness ==
    /\ ParseFailure
    /\ Len(argv) >= 3
    /\ argv[1] = "--numbers"
    /\ argv[2] = "4"
    /\ argv[3] = "two"

Rank(p) ==
    CASE p = "parse_args" -> 0
      [] p = "call" -> 1
      [] p = "avg" -> 2
      [] p = "print" -> 3
      [] p = "end" -> 4
      [] p = "exited" -> 5

Success == exitcode = 0 /\ stdout # <<>> /\ message = ""

OneOutcome ==
    \/ Success /\ ~ParseFailure /\ ~RuntimeFailure
    \/ ParseFailure /\ ~Success /\ ~RuntimeFailure
    \/ RuntimeFailure /\ ~Success /\ ~ParseFailure

\* C10: every run ends, in exactly one of success, parse failure and runtime
\* failure, and stays there; no step is entered twice.
C10_RunsEndOnce ==
    /\ <>[](pc = "exited" /\ OneOutcome)
    /\ [][Rank(pc') > Rank(pc)]_vars

\* a run has ended in success with the mean of two numbers printed
C10_Witness ==
    /\ pc = "exited"
    /\ Success
    /\ argv = <<"--numbers", "4", "6">>
    /\ stdout = <<"5.0">>

=============================================================================
